---- MODULE Spec2Model ----
(***************************************************************************)
(* A model of the timetable generator: the scheduling engine               *)
(* (solver.py, solve_timetable), the time encoding it shares with the      *)
(* desktop calendar (app.py) and the JSON-column coercion                  *)
(* (table_utils.py), and the callers that keep the collections, the        *)
(* selection list and the stored result between requests (web_app.py,      *)
(* app.py).                                                                *)
(*                                                                         *)
(* A pandas DataFrame is a sequence of rows in insertion order, a row is a *)
(* record.  One call of solve_timetable is a run of three kinds of step:   *)
(* Call (lines 16-72: the mappings, the request list, the fresh counter    *)
(* and output list), Place (one iteration of the loop of lines 74-119,     *)
(* which may raise) and Return (lines 121-122).                            *)
(***************************************************************************)
EXTENDS Integers, Sequences, FiniteSets, TLC

VARIABLES
    students_df,        \* argument: the student collection
    courses_df,         \* argument: the course catalog
    rooms_df,           \* argument: the room collection
    faculty_df,         \* argument: the faculty collection
    days,               \* constraints['days']
    slots_per_day,      \* constraints['slots_per_day']
    selections_df,      \* argument: NoSelections (None) or a sequence of selections
    pc,                 \* "idle" | "loop" | "returned" | "raised"
    scheduled_courses,  \* the request list
    idx,                \* number of requests already placed (the loop's i)
    current_slot,       \* the running slot counter
    solution_data,      \* the sessions appended so far
    result,             \* what the caller received from the last finished call
    first_call,         \* the arguments and the result of the first finished call
    calls,              \* the number of calls entered so far
    frame,              \* the collection handed to the JSON-column functions
    json_out,           \* what the JSON-column function returned
    json_orig,          \* the collection frame was rebound from, and by which call
    json_in,            \* the collection as it was handed to the last call
    json_op,            \* the JSON-column function called last
    caller,             \* "web" (web_app.py) | "desktop" (app.py)
    g_students_df,      \* the caller's student collection
    g_courses_df,       \* the caller's course catalog
    g_rooms_df,         \* the caller's room collection
    g_faculty_df,       \* the caller's faculty collection
    g_selections_df,    \* the caller's selection list
    timetable_result,   \* the stored result the export operations read
    response,           \* the answer to the request handled last
    runs,               \* the number of generation requests handled so far
    result_run,         \* the generation request that computed timetable_result
    adds,               \* the number of add requests since the last clear
    added,              \* the selections those add requests carried, in order
    constraints,        \* the caller's constraint set
    threads             \* the web server's request threads, each with its position

solver_vars == <<students_df, courses_df, rooms_df, faculty_df, days, slots_per_day, selections_df,
                 pc, scheduled_courses, idx, current_slot, solution_data, result,
                 first_call, calls>>
json_vars == <<frame, json_out, json_orig, json_op, json_in>>
data_vars == <<g_students_df, g_courses_df, g_rooms_df, g_faculty_df>>
selection_vars == <<g_selections_df, adds, added>>
result_vars == <<timetable_result, runs, result_run>>
app_vars == <<caller, g_students_df, g_courses_df, g_rooms_df, g_faculty_df,
              g_selections_df, timetable_result, response, runs, result_run,
              adds, added, constraints, threads>>
vars == <<students_df, courses_df, rooms_df, faculty_df, days, slots_per_day, selections_df,
          pc, scheduled_courses, idx, current_slot, solution_data, result,
          first_call, calls, frame, json_out, json_orig, json_op, json_in,
          caller, g_students_df, g_courses_df, g_rooms_df, g_faculty_df,
          g_selections_df, timetable_result, response, runs, result_run,
          adds, added, constraints, threads>>

-----------------------------------------------------------------------------
(* Bounds of the model *)

MaxSel == 2
MaxDays == 2
MaxSlotsPerDay == 4
MaxCalls == 3
MaxStrLen == 3
MaxListLen == 2
MaxRows == 3
MaxRuns == 2

(* Generic helpers *)

SeqsUpTo(S, n) == UNION {[1..k -> S] : k \in 0..n}

RemoveAt(s, k) == [j \in 1..(Len(s) - 1) |-> IF j < k THEN s[j] ELSE s[j + 1]]

-----------------------------------------------------------------------------
(* The inputs the model draws from *)

None == "None"

Course(code, name, program, section, dur, rtype, pool) ==
    [code |-> code, name |-> name, program |-> program, section |-> section,
     duration_slots |-> dur, room_type |-> rtype, faculty_pool |-> pool]

cAlgo == Course("A", "Algorithms", "CS", "S1", 2, "Lab", <<"f2", "f1">>)
cBio  == Course("B", "Biology", "EE", "S1", 2, "Hall", <<>>)
cArt  == Course("A", "Art", "EE", "S2", 1, "Gym", <<"f1">>)
cChem == Course("C", "Chemistry", "CS", "S3", 3, "Lab", <<"f3">>)

Catalogs ==
    { <<>>, <<cAlgo>>, <<cAlgo, cBio>>, <<cBio, cAlgo>>, <<cAlgo, cArt>>,
      <<cArt, cBio, cAlgo>>, <<cBio, cChem>> }

Room(id, name, type) == [id |-> id, name |-> name, type |-> type]

RoomCollections ==
    { <<>>,
      <<Room("r1", "Hall 1", "Hall")>>,
      <<Room("r1", "Hall 1", "Hall"), Room("r2", "Lab 1", "Lab"), Room("r3", "Lab 2", "Lab")>>,
      <<Room("r3", "Lab 2", "Lab"), Room("r2", "Lab 1", "Lab")>> }

Faculty(id, name) == [id |-> id, name |-> name]

Student(id, name) == [id |-> id, name |-> name]

FacultyCollections ==
    { <<>>,
      <<Faculty("f2", "Bob")>>,
      <<Faculty("f2", "Bob"), Faculty("f1", "Ann")>>,
      <<Faculty("f1", "Ann"), Faculty("f2", "Bob"), Faculty("f1", "Alt")>> }

DayNames == <<"Mon", "Tue", "Wed", "Thu", "Fri">>

DayLists == {SubSeq(DayNames, 1, n) : n \in 1..MaxDays}

Selection(student, code, section, fid) ==
    [student_id |-> student, course_code |-> code, section |-> section,
     faculty_id |-> fid]

SelectionRows ==
    { Selection("s1", "A", "S1", None), Selection("s1", "B", "S2", None),
      Selection("s2", "X", "S1", None), Selection("s2", "A", "S9", None) }

\* selections_df is None, or a DataFrame of up to MaxSel selections
NoSelections == [given |-> FALSE, rows |-> <<>>]
SelectionLists ==
    {NoSelections} \cup {[given |-> TRUE, rows |-> s] : s \in SeqsUpTo(SelectionRows, MaxSel)}

StudentCollections == {<<>>, <<Student("s1", "Sam")>>}

Inputs ==
    [students : StudentCollections, courses : Catalogs, rooms : RoomCollections,
     faculty : FacultyCollections,
     days : DayLists, slots_per_day : 1..MaxSlotsPerDay, selections : SelectionLists]

\* constraints as loaded from data/constraints.json
AppConstraints == [days |-> <<"Mon">>, slots_per_day |-> MaxSlotsPerDay]

\* constraints = {}: nothing loaded, no key to read
NoConstraints == [days |-> <<>>, slots_per_day |-> 0]

\* the callers before anything is loaded (web_app.py lines 31-38)
NoResponse == [op |-> "none", status |-> "ok", invoked |-> FALSE]

\* no request is being handled by a thread of its own
NoThreads == <<>>

AppIdle ==
    /\ caller = "web"
    /\ g_students_df = <<>>
    /\ g_courses_df = <<>>
    /\ g_rooms_df = <<>>
    /\ g_faculty_df = <<>>
    /\ g_selections_df = <<>>
    /\ timetable_result = <<>>
    /\ response = NoResponse
    /\ runs = 0
    /\ result_run = 0
    /\ adds = 0
    /\ added = <<>>
    /\ constraints = NoConstraints
    /\ threads = NoThreads

-----------------------------------------------------------------------------
(* Time encoding: the f-string of solver.py lines 114-115 and app.py line 508 *)

\* format spec .0f on the float halves/2: round to the nearest integer, a tie
\* (an exact .5) goes to the even neighbour
FormatF0(halves) ==
    LET q == halves \div 2
    IN  IF halves % 2 = 0 THEN q
        ELSE IF q % 2 = 0 THEN q ELSE q + 1

\* format spec 02: at least two characters, filled with zeros on the left
ZeroPad2(n) == IF n < 10 THEN "0" \o ToString(n) ELSE ToString(n)

\* f"{8 + slot * 0.5:02.0f}:{int((slot * 0.5) % 1 * 60):02d}"
TimeStr(slot) ==
    ZeroPad2(FormatF0(2 * 8 + slot)) \o ":" \o ZeroPad2(((slot % 2) * 60) \div 2)

\* the row labels of the desktop calendar: one per slot of the day
CalendarLabels(spd) == [slot \in 0..(spd - 1) |-> TimeStr(slot)]

-----------------------------------------------------------------------------
(* Catalog index *)

Codes(courses) == {courses[i].code : i \in DOMAIN courses}

LastIndex(S) == CHOOSE i \in S : \A j \in S : j <= i
FirstIndex(S) == CHOOSE i \in S : \A j \in S : i <= j

\* course_map = {row['code']: row for ...}: a later row replaces an earlier one
CourseMap(courses) ==
    [c \in Codes(courses) |->
        courses[LastIndex({i \in DOMAIN courses : courses[i].code = c})]]

\* faculty_map = {row['id']: row for ...}
FacultyMap(faculty) ==
    [f \in {faculty[i].id : i \in DOMAIN faculty} |->
        faculty[LastIndex({i \in DOMAIN faculty : faculty[i].id = f})]]

\* rooms_by_type[t]: the indices of the rooms of type t, in collection order
RoomsOfType(rooms, t) == {i \in DOMAIN rooms : rooms[i].type = t}

-----------------------------------------------------------------------------
(* Request-list construction *)

Request(student, code, section, fid, course) ==
    [student_id |-> student, course_code |-> code, section |-> section,
     faculty_id |-> fid, course |-> course]

RECURSIVE SelectionRequestsCourseSection(_, _)
\* mutant: the request carries the course row's section, not the selection's
SelectionRequestsCourseSection(rows, course_map) ==
    IF rows = <<>> THEN <<>>
    ELSE LET sel == Head(rows)
             rest == SelectionRequestsCourseSection(Tail(rows), course_map)
         IN  IF sel.course_code \in DOMAIN course_map
             THEN <<Request(sel.student_id, sel.course_code,
                            course_map[sel.course_code].section,
                            sel.faculty_id, course_map[sel.course_code])>> \o rest
             ELSE rest

RECURSIVE SelectionRequestsUnknownKept(_, _)
\* mutant: a selection with an unknown code is scheduled as some catalog course
SelectionRequestsUnknownKept(rows, course_map) ==
    IF rows = <<>> THEN <<>>
    ELSE LET sel == Head(rows)
             rest == SelectionRequestsUnknownKept(Tail(rows), course_map)
             code == IF sel.course_code \in DOMAIN course_map \/ DOMAIN course_map = {}
                     THEN sel.course_code
                     ELSE CHOOSE c \in DOMAIN course_map : TRUE
         IN  IF code \in DOMAIN course_map
             THEN <<Request(sel.student_id, code, sel.section,
                            sel.faculty_id, course_map[code])>> \o rest
             ELSE rest

RECURSIVE SelectionRequestsPinned(_, _)
\* mutant: the faculty member a selection names heads the pool of its request
SelectionRequestsPinned(rows, course_map) ==
    IF rows = <<>> THEN <<>>
    ELSE LET sel == Head(rows)
             rest == SelectionRequestsPinned(Tail(rows), course_map)
         IN  IF sel.course_code \in DOMAIN course_map
             THEN <<Request(sel.student_id, sel.course_code, sel.section,
                            sel.faculty_id,
                            IF sel.faculty_id = None
                            THEN course_map[sel.course_code]
                            ELSE [course_map[sel.course_code] EXCEPT
                                     !.faculty_pool = <<sel.faculty_id>> \o @])>> \o rest
             ELSE rest

RECURSIVE SelectionRequests(_, _)
\* lines 42-56: one request per selection whose code is in course_map
SelectionRequests(rows, course_map) ==
    IF rows = <<>> THEN <<>>
    ELSE LET sel == Head(rows)
             rest == SelectionRequests(Tail(rows), course_map)
         IN  IF sel.course_code \in DOMAIN course_map
             THEN <<Request(sel.student_id, sel.course_code, sel.section,
                            sel.faculty_id, course_map[sel.course_code])>> \o rest
             ELSE rest

\* mutant: the catalog fallback looks every row up in course_map
CatalogRequestsViaMap(courses) ==
    [i \in DOMAIN courses |->
        Request(None, courses[i].code, CourseMap(courses)[courses[i].code].section,
                None, CourseMap(courses)[courses[i].code])]

\* lines 59-66: one request per catalog row
CatalogRequests(courses) ==
    [i \in DOMAIN courses |->
        Request(None, courses[i].code, courses[i].section, None, courses[i])]

\* line 40: selections_df is not None and not selections_df.empty
UseSelections(selections) == selections.given /\ selections.rows # <<>>

\* mutant: the catalog is the fallback of an empty request list
ScheduledCoursesOrCatalog(courses, selections) ==
    IF UseSelections(selections)
          /\ SelectionRequests(selections.rows, CourseMap(courses)) # <<>>
    THEN SelectionRequests(selections.rows, CourseMap(courses))
    ELSE CatalogRequests(courses)

ScheduledCourses(courses, selections) ==
    IF UseSelections(selections)
    THEN SelectionRequests(selections.rows, CourseMap(courses))
    ELSE CatalogRequests(courses)

-----------------------------------------------------------------------------
(* One iteration of the placement loop *)

\* lines 82-84: the day index that overflows the grid
Wraps(cs, dys, spd) == (cs \div spd) >= Len(dys)

\* mutant: an overflowing day index cycles on through the days
DayIdxCycles(cs, dys, spd) == (cs \div spd) % Len(dys)

DayIdx(cs, dys, spd) == IF Wraps(cs, dys, spd) THEN 0 ELSE cs \div spd

\* mutant: the counter is not reset at a wrap
PlacementSlotNoReset(cs, dys, spd) == cs

\* the counter after lines 82-84
PlacementSlot(cs, dys, spd) == IF Wraps(cs, dys, spd) THEN cs % spd ELSE cs

\* rooms_df.iloc[0] on an empty collection raises
RoomRaises(rooms, course) == RoomsOfType(rooms, course.room_type) = {} /\ rooms = <<>>

\* mutant: the last room of the required type
ResolveRoomLast(rooms, course) ==
    IF RoomsOfType(rooms, course.room_type) # {}
    THEN rooms[LastIndex(RoomsOfType(rooms, course.room_type))]
    ELSE rooms[1]

\* mutant: a room without seats is passed over
ResolveRoomWithCapacity(rooms, course) ==
    LET seated == {i \in RoomsOfType(rooms, course.room_type) : rooms[i].capacity > 0}
    IN  IF seated # {} THEN rooms[FirstIndex(seated)]
        ELSE IF RoomsOfType(rooms, course.room_type) # {}
             THEN rooms[FirstIndex(RoomsOfType(rooms, course.room_type))]
             ELSE rooms[1]

\* lines 87-91
ResolveRoom(rooms, course) ==
    IF RoomsOfType(rooms, course.room_type) # {}
    THEN rooms[FirstIndex(RoomsOfType(rooms, course.room_type))]
    ELSE rooms[1]

FacultyWithId(faculty, f) == {i \in DOMAIN faculty : faculty[i].id = f}

\* .iloc[0] on an empty selection or collection raises
FacultyRaises(faculty, course) ==
    IF course.faculty_pool # <<>>
    THEN FacultyWithId(faculty, course.faculty_pool[1]) = {}
    ELSE faculty = <<>>

\* mutant: the record of faculty_map
ResolveFacultyFromMap(faculty, course) ==
    IF course.faculty_pool # <<>>
    THEN FacultyMap(faculty)[course.faculty_pool[1]]
    ELSE faculty[1]

\* lines 94-99
ResolveFaculty(faculty, course) ==
    IF course.faculty_pool # <<>>
    THEN faculty[FirstIndex(FacultyWithId(faculty, course.faculty_pool[1]))]
    ELSE faculty[1]

PlaceRaises(rooms, faculty, course_info) ==
    RoomRaises(rooms, course_info.course) \/ FacultyRaises(faculty, course_info.course)

\* mutant: the end slot is the first slot after the session
EndSlotExclusive(cs, course) == cs + course.duration_slots

\* lines 102-103, on the counter after the wrap
EndSlot(cs, course) == cs + course.duration_slots - 1

\* lines 105-116
Session(cs0, course_info, rooms, faculty, dys, spd) ==
    LET course == course_info.course
        cs == PlacementSlot(cs0, dys, spd)
        slot_in_day == cs0 % spd
        end_slot == EndSlot(cs, course)
    IN  [program |-> course.program,
         section |-> course_info.section,
         course |-> course.name,
         faculty |-> ResolveFaculty(faculty, course).name,
         room |-> ResolveRoom(rooms, course).name,
         day |-> dys[DayIdx(cs0, dys, spd) + 1],
         start |-> slot_in_day,
         end |-> end_slot % spd,
         start_time |-> TimeStr(slot_in_day),
         end_time |-> TimeStr(end_slot % spd)]

\* mutant: the counter advances from its value before the day-wrap reset
AdvanceFromRaw(cs0, course, dys, spd) == cs0 + course.duration_slots + 1

\* mutant: the counter moves on by one slot whatever the duration
AdvanceOneSlot(cs0, course, dys, spd) == PlacementSlot(cs0, dys, spd) + 1

\* mutant: no gap slot between consecutive placements
AdvanceNoGap(cs0, course, dys, spd) == PlacementSlot(cs0, dys, spd) + course.duration_slots

\* line 119
Advance(cs0, course, dys, spd) == PlacementSlot(cs0, dys, spd) + course.duration_slots + 1

-----------------------------------------------------------------------------
(* JSON columns (table_utils.py).  A cell is [kind, v]: an integer with its   *)
(* digits, a string with its characters, a list with its items, a mapping     *)
(* with its entries.  A JSON text is a sequence of characters.                *)

IntCell(digits) == [kind |-> "int", v |-> digits]
StrCell(chars) == [kind |-> "str", v |-> chars]
ListCell(items) == [kind |-> "list", v |-> items]
DictCell(entries) == [kind |-> "dict", v |-> entries]

DigitChars == {"1", "2"}

RECURSIVE Dumps(_)
RECURSIVE DumpItems(_)
RECURSIVE DumpEntries(_)
\* json.dumps with the default separators ", " and ": "
Dumps(x) ==
    IF x.kind = "int" THEN x.v
    ELSE IF x.kind = "str" THEN <<"\"">> \o x.v \o <<"\"">>
    ELSE IF x.kind = "list" THEN <<"[">> \o DumpItems(x.v) \o <<"]">>
    ELSE <<"{">> \o DumpEntries(x.v) \o <<"}">>

DumpItems(items) ==
    IF items = <<>> THEN <<>>
    ELSE IF Len(items) = 1 THEN Dumps(items[1])
    ELSE Dumps(items[1]) \o <<",", " ">> \o DumpItems(Tail(items))

DumpEntries(entries) ==
    IF entries = <<>> THEN <<>>
    ELSE LET e == entries[1]
             one == <<"\"">> \o e.key \o <<"\"", ":", " ">> \o Dumps(e.val)
         IN  IF Len(entries) = 1 THEN one
             ELSE one \o <<",", " ">> \o DumpEntries(Tail(entries))

RECURSIVE SkipWs(_)
SkipWs(cs) == IF cs # <<>> /\ Head(cs) = " " THEN SkipWs(Tail(cs)) ELSE cs

RECURSIVE DigitRun(_)
DigitRun(cs) ==
    IF cs # <<>> /\ Head(cs) \in DigitChars THEN <<Head(cs)>> \o DigitRun(Tail(cs))
    ELSE <<>>

ParseFail == [ok |-> FALSE, val |-> IntCell(<<>>), rest |-> <<>>]

RECURSIVE ParseValue(_)
RECURSIVE ParseItems(_, _)
\* the JSON decoder on texts of lists, integers and blanks: a value, then the
\* rest of the text; anything else is a JSONDecodeError
ParseValue(cs0) ==
    LET cs == SkipWs(cs0)
    IN  IF cs = <<>> THEN ParseFail
        ELSE IF Head(cs) = "["
             THEN LET r == SkipWs(Tail(cs))
                  IN  IF r # <<>> /\ Head(r) = "]"
                      THEN [ok |-> TRUE, val |-> ListCell(<<>>), rest |-> Tail(r)]
                      ELSE ParseItems(r, <<>>)
        ELSE IF Head(cs) \in DigitChars
             THEN [ok |-> TRUE, val |-> IntCell(DigitRun(cs)),
                   rest |-> SubSeq(cs, Len(DigitRun(cs)) + 1, Len(cs))]
        ELSE ParseFail

ParseItems(cs, acc) ==
    LET item == ParseValue(cs)
        r == SkipWs(item.rest)
    IN  IF ~item.ok \/ r = <<>> THEN ParseFail
        ELSE IF Head(r) = "]"
             THEN [ok |-> TRUE, val |-> ListCell(Append(acc, item.val)), rest |-> Tail(r)]
        ELSE IF Head(r) = ","
             THEN ParseItems(Tail(r), Append(acc, item.val))
        ELSE ParseFail

\* json.loads: one value, then nothing but blanks
Loads(cs) ==
    LET r == ParseValue(cs)
    IN  IF r.ok /\ SkipWs(r.rest) = <<>> THEN [ok |-> TRUE, val |-> r.val]
        ELSE [ok |-> FALSE, val |-> IntCell(<<>>)]

\* mutant: the enclosing brackets are dropped and the text between them kept
DecodeCellUnwrap(x) ==
    IF x.kind = "str" /\ x.v # <<>> /\ x.v[1] = "["
    THEN [ok |-> TRUE, val |-> StrCell(SubSeq(x.v, 2, Len(x.v) - 1))]
    ELSE [ok |-> TRUE, val |-> x]

\* line 127: json.loads(x) if isinstance(x, str) and x.startswith('[') else x
DecodeCell(x) ==
    IF x.kind = "str" /\ x.v # <<>> /\ x.v[1] = "["
    THEN Loads(x.v)
    ELSE [ok |-> TRUE, val |-> x]

\* line 136: json.dumps(x) if isinstance(x, (list, dict)) else x
EncodeCell(x) == IF x.kind \in {"list", "dict"} THEN StrCell(Dumps(x)) ELSE x

\* a collection: column name -> the column's cells
EmptyFrame == [faculty_pool |-> <<>>, name |-> <<>>]
NoOut == [ok |-> TRUE, df |-> EmptyFrame]
NoIn == [op |-> "none", df |-> EmptyFrame, shared |-> FALSE]

\* mutant: the function works on the caller's collection itself
FrameAlias(dataframe) == [shared |-> TRUE, df |-> dataframe]

\* df = dataframe.copy() (lines 124 and 133): a new collection with the
\* caller's cells
FrameCopy(dataframe) == [shared |-> FALSE, df |-> dataframe]

\* what the caller's collection holds once columns of df were replaced by new:
\* df[col] = ... writes to the caller's collection only if df is that collection
InputAfter(dataframe, df, new) == IF df.shared THEN new ELSE dataframe

\* the columns declared for the courses collection (web_app.py lines 41-46)
JsonColumns == {"allowed_days", "allowed_start_slots", "faculty_pool"}

DecodedCells(df, json_columns) ==
    [c \in DOMAIN df |->
        [i \in DOMAIN df[c] |->
            IF c \in json_columns THEN DecodeCell(df[c][i])
            ELSE [ok |-> TRUE, val |-> df[c][i]]]]

\* mutant: a cell that does not decode is kept as text and the call returns
parse_json_columns_lenient(df, json_columns) ==
    LET d == DecodedCells(df, json_columns)
    IN  [ok |-> TRUE,
         df |-> [c \in DOMAIN df |->
                    [i \in DOMAIN df[c] |->
                        IF d[c][i].ok THEN d[c][i].val ELSE df[c][i]]]]

\* lines 122-128; a decode error leaves the call without a result
parse_json_columns(df, json_columns) ==
    LET d == DecodedCells(df, json_columns)
    IN  IF \E c \in DOMAIN df : \E i \in DOMAIN df[c] : ~d[c][i].ok
        THEN [ok |-> FALSE, df |-> EmptyFrame]
        ELSE [ok |-> TRUE,
              df |-> [c \in DOMAIN df |-> [i \in DOMAIN df[c] |-> d[c][i].val]]]

\* lines 131-137
serialize_json_columns(df, json_columns) ==
    [ok |-> TRUE,
     df |-> [c \in DOMAIN df |->
                [i \in DOMAIN df[c] |->
                    IF c \in json_columns THEN EncodeCell(df[c][i]) ELSE df[c][i]]]]

(* The cells and collections the model draws from *)

StrAlphabet == {"[", "]", "1", ",", " "}

IntCells == {IntCell(<<d>>) : d \in DigitChars}
ListCells == {ListCell(items) : items \in SeqsUpTo(IntCells, MaxListLen)}
DictCells ==
    { DictCell(<<>>),
      DictCell(<<[key |-> <<"a">>, val |-> IntCell(<<"1">>)]>>) }
StrCells == {StrCell(chars) : chars \in SeqsUpTo(StrAlphabet, MaxStrLen)}

CellValues == IntCells \cup ListCells \cup DictCells \cup StrCells

Frames ==
    {[faculty_pool |-> <<x>>, name |-> <<y>>] :
        x \in CellValues, y \in {StrCell(<<"[", "1", "]">>), ListCell(<<>>)}}

InitJson ==
    /\ students_df = <<>>
    /\ courses_df = <<>>
    /\ rooms_df = <<>>
    /\ faculty_df = <<>>
    /\ days = <<"Mon">>
    /\ slots_per_day = 1
    /\ selections_df = NoSelections
    /\ pc = "idle"
    /\ scheduled_courses = <<>>
    /\ idx = 0
    /\ current_slot = 0
    /\ solution_data = <<>>
    /\ result = [status |-> "pending", sessions |-> <<>>]
    /\ first_call = [made |-> FALSE,
                     args |-> [students |-> <<>>, courses |-> <<>>, rooms |-> <<>>,
                               faculty |-> <<>>,
                               days |-> <<"Mon">>, slots_per_day |-> 1,
                               selections |-> NoSelections],
                     result |-> [status |-> "pending", sessions |-> <<>>]]
    /\ calls = 0
    /\ frame \in Frames
    /\ json_out = NoOut
    /\ json_orig = [op |-> "none", df |-> frame]
    /\ json_op = "none"
    /\ json_in = NoIn
    /\ AppIdle

\* parse_json_columns(frame, JsonColumns) is called; the column assignment of
\* line 127 is reached only when every cell of the column was decoded
JsonParse ==
    LET df == FrameCopy(frame)
        out == parse_json_columns(df.df, JsonColumns)
    IN  /\ json_out' = out
        /\ frame' = IF out.ok THEN InputAfter(frame, df, out.df) ELSE frame
        /\ json_in' = [op |-> "parse", df |-> frame, shared |-> df.shared]
        /\ json_op' = "parse"
        /\ UNCHANGED <<json_orig, solver_vars, app_vars>>

\* serialize_json_columns(frame, JsonColumns) is called
JsonSerialize ==
    LET df == FrameCopy(frame)
        out == serialize_json_columns(df.df, JsonColumns)
    IN  /\ json_out' = out
        /\ frame' = InputAfter(frame, df, out.df)
        /\ json_in' = [op |-> "serialize", df |-> frame, shared |-> df.shared]
        /\ json_op' = "serialize"
        /\ UNCHANGED <<json_orig, solver_vars, app_vars>>

\* the caller replaces a column of the collection it was returned
JsonReplaceColumn ==
    /\ json_op \in {"parse", "serialize"}
    /\ json_out.ok
    /\ \E c \in DOMAIN json_out.df :
         LET new == [json_out.df EXCEPT ![c] = <<IntCell(<<"2">>)>>]
         IN  /\ json_out' = [json_out EXCEPT !.df = new]
             /\ frame' = InputAfter(frame, json_in, new)
    /\ json_op' = "replace"
    /\ UNCHANGED <<json_orig, json_in, solver_vars, app_vars>>

\* the caller keeps the returned collection in place of the one it passed
\* (df = parse_json_columns(df, ...), df = serialize_json_columns(df, ...))
JsonRebind ==
    /\ json_op \in {"parse", "serialize"}
    /\ json_out.ok
    /\ frame' = json_out.df
    /\ json_orig' = [op |-> json_op, df |-> frame]
    /\ json_op' = "none"
    /\ json_out' = NoOut
    /\ json_in' = NoIn
    /\ UNCHANGED <<solver_vars, app_vars>>

NextJson == JsonParse \/ JsonSerialize \/ JsonRebind \/ JsonReplaceColumn

SpecJson == InitJson /\ [][NextJson]_vars

-----------------------------------------------------------------------------
(* The engine as a state machine *)

NoResult == [status |-> "pending", sessions |-> <<>>]
NoArgs ==
    [students |-> <<>>, courses |-> <<>>, rooms |-> <<>>, faculty |-> <<>>, days |-> <<"Mon">>,
     slots_per_day |-> 1, selections |-> NoSelections]
NoCall == [made |-> FALSE, args |-> NoArgs, result |-> NoResult]

Args ==
    [students |-> students_df, courses |-> courses_df, rooms |-> rooms_df, faculty |-> faculty_df,
     days |-> days, slots_per_day |-> slots_per_day, selections |-> selections_df]

JsonIdle ==
    /\ frame = EmptyFrame
    /\ json_out = NoOut
    /\ json_orig = [op |-> "none", df |-> EmptyFrame]
    /\ json_op = "none"
    /\ json_in = NoIn

Init ==
    /\ students_df = <<>>
    /\ courses_df = <<>>
    /\ rooms_df = <<>>
    /\ faculty_df = <<>>
    /\ days = <<"Mon">>
    /\ slots_per_day = 1
    /\ selections_df = NoSelections
    /\ pc = "idle"
    /\ scheduled_courses = <<>>
    /\ idx = 0
    /\ current_slot = 0
    /\ solution_data = <<>>
    /\ result = NoResult
    /\ first_call = NoCall
    /\ calls = 0
    /\ JsonIdle
    /\ AppIdle

\* mutant: the counter of the previous call is carried into the next
CarriedSlot(previous) == previous

\* the locals a call starts with (lines 38-72)
FreshSlot(previous) == 0
FreshSolution(previous) == <<>>

\* solve_timetable is entered with arguments a: lines 16-72
Enter(a) ==
    /\ pc \in {"idle", "returned", "raised"}
    /\ students_df' = a.students
    /\ courses_df' = a.courses
    /\ rooms_df' = a.rooms
    /\ faculty_df' = a.faculty
    /\ days' = a.days
    /\ slots_per_day' = a.slots_per_day
    /\ selections_df' = a.selections
    /\ scheduled_courses' = ScheduledCourses(a.courses, a.selections)
    /\ idx' = 0
    /\ solution_data' = FreshSolution(solution_data)
    /\ current_slot' = FreshSlot(current_slot)
    /\ result' = NoResult
    /\ pc' = "loop"
    /\ calls' = calls + 1
    /\ UNCHANGED <<json_vars, app_vars>>

\* mutant: an iteration that fails ends the call with the sessions placed so far
PlaceReturnsPartial ==
    /\ pc = "loop"
    /\ idx < Len(scheduled_courses)
    /\ LET course_info == scheduled_courses[idx + 1]
       IN  IF PlaceRaises(rooms_df, faculty_df, course_info)
           THEN /\ pc' = "returned"
                /\ result' = [status |-> "returned", sessions |-> solution_data]
                /\ UNCHANGED <<idx, current_slot, solution_data>>
           ELSE /\ solution_data' =
                        Append(solution_data,
                               Session(current_slot, course_info, rooms_df, faculty_df,
                                       days, slots_per_day))
                /\ current_slot' =
                        Advance(current_slot, course_info.course, days, slots_per_day)
                /\ idx' = idx + 1
                /\ UNCHANGED <<pc, result>>
    /\ UNCHANGED <<students_df, courses_df, rooms_df, faculty_df, days, slots_per_day,
                   selections_df,
                   scheduled_courses, calls, json_vars, app_vars>>

\* mutant: a session that would double-book is left out
PlaceSkipsBooked ==
    /\ pc = "loop"
    /\ idx < Len(scheduled_courses)
    /\ LET course_info == scheduled_courses[idx + 1]
       IN  IF PlaceRaises(rooms_df, faculty_df, course_info)
           THEN /\ pc' = "raised"
                /\ result' = [status |-> "raised", sessions |-> <<>>]
                /\ UNCHANGED <<idx, current_slot, solution_data>>
           ELSE LET s == Session(current_slot, course_info, rooms_df, faculty_df,
                                 days, slots_per_day)
                IN  /\ solution_data' =
                          IF \E k \in DOMAIN solution_data :
                                /\ solution_data[k].day = s.day
                                /\ solution_data[k].start = s.start
                                /\ solution_data[k].room = s.room
                                /\ solution_data[k].faculty = s.faculty
                          THEN solution_data
                          ELSE Append(solution_data, s)
                    /\ current_slot' =
                          Advance(current_slot, course_info.course, days, slots_per_day)
                    /\ idx' = idx + 1
                    /\ UNCHANGED <<pc, result>>
    /\ UNCHANGED <<students_df, courses_df, rooms_df, faculty_df, days, slots_per_day,
                   selections_df, scheduled_courses, calls, json_vars, app_vars>>

\* one iteration of the loop of lines 74-119; an exception ends the call
Place ==
    /\ pc = "loop"
    /\ idx < Len(scheduled_courses)
    /\ LET course_info == scheduled_courses[idx + 1]
       IN  IF PlaceRaises(rooms_df, faculty_df, course_info)
           THEN /\ pc' = "raised"
                /\ result' = [status |-> "raised", sessions |-> <<>>]
                /\ UNCHANGED <<idx, current_slot, solution_data>>
           ELSE /\ solution_data' =
                        Append(solution_data,
                               Session(current_slot, course_info, rooms_df, faculty_df,
                                       days, slots_per_day))
                /\ current_slot' =
                        Advance(current_slot, course_info.course, days, slots_per_day)
                /\ idx' = idx + 1
                /\ UNCHANGED <<pc, result>>
    /\ UNCHANGED <<students_df, courses_df, rooms_df, faculty_df, days, slots_per_day,
                   selections_df,
                   scheduled_courses, calls, json_vars, app_vars>>

\* mutant: the selections that were scheduled are taken off the caller's list
ReturnConsumesSelections ==
    /\ pc = "loop"
    /\ idx = Len(scheduled_courses)
    /\ pc' = "returned"
    /\ result' = [status |-> "returned", sessions |-> solution_data]
    /\ selections_df' = [selections_df EXCEPT !.rows = <<>>]
    /\ UNCHANGED <<students_df, courses_df, rooms_df, faculty_df, days, slots_per_day,
                   scheduled_courses, idx, current_slot, solution_data, calls,
                   json_vars, app_vars>>

\* lines 121-122
Return ==
    /\ pc = "loop"
    /\ idx = Len(scheduled_courses)
    /\ pc' = "returned"
    /\ result' = [status |-> "returned", sessions |-> solution_data]
    /\ UNCHANGED <<students_df, courses_df, rooms_df, faculty_df, days, slots_per_day,
                   selections_df,
                   scheduled_courses, idx, current_slot, solution_data, calls,
                   json_vars, app_vars>>

\* the first call of a process: any arguments
Call ==
    /\ pc = "idle"
    /\ \E a \in Inputs : Enter(a)
    /\ UNCHANGED first_call

Step ==
    /\ Place \/ Return
    /\ UNCHANGED first_call

Next == Call \/ Step

Spec == Init /\ [][Next]_vars

-----------------------------------------------------------------------------
(* Repeated calls in one process: the callers call solve_timetable on every   *)
(* generation request.  The first finished call is remembered.                *)

RepeatInputs ==
    [students : {<<Student("s1", "Sam")>>},
     courses : {<<cAlgo, cBio>>},
     rooms : {<<Room("r1", "Hall 1", "Hall")>>},
     faculty : {<<Faculty("f2", "Bob")>>},
     days : {<<"Mon">>},
     slots_per_day : {MaxSlotsPerDay},
     selections : SelectionLists]

CallAgain ==
    /\ pc \in {"idle", "returned", "raised"}
    /\ calls < MaxCalls
    /\ \E a \in RepeatInputs : Enter(a)
    /\ UNCHANGED first_call

StepRecorded ==
    /\ Place \/ Return
    /\ first_call' =
          IF ~first_call.made /\ pc' \in {"returned", "raised"}
          THEN [made |-> TRUE, args |-> Args, result |-> result']
          ELSE first_call

NextRepeat == CallAgain \/ StepRecorded

SpecRepeat == Init /\ [][NextRepeat]_vars

-----------------------------------------------------------------------------
(* Two calls whose selection lists differ only in who selected and in the     *)
(* faculty member asked for (web_app.py lines 305-310 and app.py lines        *)
(* 438-451 put both in every selection)                                       *)

\* selections with and without a faculty member asked for
PinnedRows ==
    { Selection(st, code, "S1", fid) :
         st \in {"s1", "s2"}, code \in {"A", "B"}, fid \in {None, "f1"} }

PinnedInputs ==
    [students : {<<Student("s1", "Sam")>>},
     courses : {<<cAlgo, cBio>>},
     rooms : {<<Room("r1", "Hall 1", "Hall")>>},
     faculty : {<<Faculty("f2", "Bob"), Faculty("f1", "Ann")>>},
     days : {<<"Mon">>},
     slots_per_day : {MaxSlotsPerDay},
     selections : {[given |-> TRUE, rows |-> r] : r \in SeqsUpTo(PinnedRows, MaxSel)}]

\* the lists that differ from rows in student_id and faculty_id at most
Repinned(rows) ==
    { r \in [DOMAIN rows -> PinnedRows] :
         \A k \in DOMAIN rows :
            /\ r[k].course_code = rows[k].course_code
            /\ r[k].section = rows[k].section }

CallPinned ==
    /\ pc = "idle"
    /\ \E a \in PinnedInputs : Enter(a)
    /\ UNCHANGED first_call

\* the second call: the arguments of the first with other students and
\* faculty members in the selections
CallRepinned ==
    /\ pc \in {"returned", "raised"}
    /\ calls = 1
    /\ \E r \in Repinned(first_call.args.selections.rows) :
          Enter([first_call.args EXCEPT !.selections.rows = r])
    /\ UNCHANGED first_call

NextPinned == CallPinned \/ CallRepinned \/ StepRecorded

SpecPinned == Init /\ [][NextPinned]_vars

-----------------------------------------------------------------------------
(* The whole call as a function of its arguments *)

RECURSIVE PlaceAll(_, _, _, _)
\* the loop of lines 74-119 from request k on, with counter cs and output out
PlaceAll(a, k, cs, out) ==
    LET reqs == ScheduledCourses(a.courses, a.selections)
    IN  IF k > Len(reqs) THEN [status |-> "returned", sessions |-> out]
        ELSE IF PlaceRaises(a.rooms, a.faculty, reqs[k])
             THEN [status |-> "raised", sessions |-> <<>>]
             ELSE PlaceAll(a, k + 1,
                           Advance(cs, reqs[k].course, a.days, a.slots_per_day),
                           Append(out, Session(cs, reqs[k], a.rooms, a.faculty,
                                               a.days, a.slots_per_day)))

SolveTimetable(a) == PlaceAll(a, 1, FreshSlot(0), FreshSolution(<<>>))

-----------------------------------------------------------------------------
(* Calls on collections that carry the columns the engine is handed but does  *)
(* not schedule by: a course's allowed_days and allowed_start_slots, a room's  *)
(* capacity and availability, a faculty member's availability and max_load    *)
(* (the columns of create_sample_dataframes, table_utils.py lines 140-212)     *)

FullCourse(c, allowed_days, allowed_start_slots, pool) ==
    [code |-> c.code, name |-> c.name, program |-> c.program, section |-> c.section,
     duration_slots |-> c.duration_slots, room_type |-> c.room_type,
     faculty_pool |-> pool, allowed_days |-> allowed_days,
     allowed_start_slots |-> allowed_start_slots]

FullRoom(r, capacity, availability) ==
    [id |-> r.id, name |-> r.name, type |-> r.type, capacity |-> capacity,
     availability |-> availability]

FullFaculty(f, availability, max_load) ==
    [id |-> f.id, name |-> f.name, availability |-> availability,
     max_load |-> max_load]

\* a pool with the same first identifier and another tail
PoolWithTail(pool, tail) == IF pool = <<>> THEN <<>> ELSE <<pool[1]>> \o tail

\* the settings of a column: 1 has every row as loaded ([1]), 2 has another
\* value ([2]) in the rows of odd position
Setting(values, v, i) == IF v = 2 /\ i % 2 = 1 THEN values[2] ELSE values[1]

AllowedDays == <<<<0, 1, 2, 3, 4>>, <<>>>>
AllowedStartSlots == <<<<1, 3, 5, 7>>, <<0>>>>
PoolTails == <<<<"f1">>, <<>>>>
Capacities == <<30, 0>>
Availabilities == <<<<"Mon:1-16", "Tue:1-16">>, <<>>>>
MaxLoads == <<30, 0>>

\* the arguments a with every such column set as v says
WithColumns(a, v) ==
    [students |-> v.students,
     courses |-> [i \in DOMAIN a.courses |->
                    FullCourse(a.courses[i], Setting(AllowedDays, v.days, i),
                               Setting(AllowedStartSlots, v.slots, i),
                               PoolWithTail(a.courses[i].faculty_pool,
                                            Setting(PoolTails, v.tail, i)))],
     rooms |-> [i \in DOMAIN a.rooms |->
                    FullRoom(a.rooms[i], Setting(Capacities, v.capacity, i),
                             Setting(Availabilities, v.room_av, i))],
     faculty |-> [i \in DOMAIN a.faculty |->
                    FullFaculty(a.faculty[i], Setting(Availabilities, v.faculty_av, i),
                                Setting(MaxLoads, v.max_load, i))],
     days |-> a.days, slots_per_day |-> a.slots_per_day,
     selections |-> a.selections]

ColumnSettings ==
    [students : StudentCollections, days : 1..2, slots : 1..2, tail : 1..2,
     capacity : 1..2, room_av : 1..2, faculty_av : 1..2, max_load : 1..2]

AsLoaded ==
    [students |-> <<Student("s1", "Sam")>>, days |-> 1, slots |-> 1, tail |-> 1,
     capacity |-> 1, room_av |-> 1, faculty_av |-> 1, max_load |-> 1]

\* the arguments that differ from a in those columns and the students only
Variants(a) == {WithColumns(a, v) : v \in ColumnSettings}

InertSelections ==
    { NoSelections,
      [given |-> TRUE,
       rows |-> <<Selection("s1", "B", "S2", None), Selection("s1", "A", "S1", None)>>] }

InertInputs ==
    {WithColumns(a, AsLoaded) :
        a \in [students : {<<>>}, courses : Catalogs, rooms : RoomCollections,
               faculty : FacultyCollections, days : DayLists,
               slots_per_day : {MaxSlotsPerDay}, selections : InertSelections]}

CallInert ==
    /\ pc = "idle"
    /\ \E a \in InertInputs : Enter(a)
    /\ UNCHANGED first_call

NextInert == CallInert \/ Step

SpecInert == Init /\ [][NextInert]_vars

-----------------------------------------------------------------------------
(* The callers: row editing of the course catalog                             *)

Callers == {"web", "desktop"}

SolverIdle ==
    /\ students_df = <<>>
    /\ courses_df = <<>>
    /\ rooms_df = <<>>
    /\ faculty_df = <<>>
    /\ days = <<"Mon">>
    /\ slots_per_day = 1
    /\ selections_df = NoSelections
    /\ pc = "idle"
    /\ scheduled_courses = <<>>
    /\ idx = 0
    /\ current_slot = 0
    /\ solution_data = <<>>
    /\ result = NoResult
    /\ first_call = NoCall
    /\ calls = 0

\* the row both callers create in an empty catalog
DefaultCourse ==
    Course("NEW101", "New Course", "Computer Science", "A", 4, "Classroom", <<>>)

\* web_app.py lines 229-231: a copy of the last row with a code made of the
\* row count
WebNewCourse(courses) ==
    [courses[Len(courses)] EXCEPT
        !.code = "NEW" \o ToString(Len(courses) + 101),
        !.name = "New Course"]

\* app.py lines 366-368: a copy of the last row; a course row has no 'id'
DesktopNewCourse(courses) == courses[Len(courses)]

add_row(who, courses) ==
    IF courses = <<>> THEN <<DefaultCourse>>
    ELSE Append(courses,
                IF who = "web" THEN WebNewCourse(courses)
                ELSE DesktopNewCourse(courses))

\* the guard of the drop: not df.empty and 0 <= row_index < len(df)
ValidIndex(df, row_index) == df # <<>> /\ 0 <= row_index /\ row_index < Len(df)

remove_row(df, row_index) ==
    IF ValidIndex(df, row_index) THEN RemoveAt(df, row_index + 1) ELSE df

\* -1 stands for an index outside the collection
RowIndexes == -1..(MaxRows - 1)

AddCourseRow ==
    /\ Len(g_courses_df) < MaxRows
    /\ g_courses_df' = add_row(caller, g_courses_df)
    /\ response' = [op |-> "add_row", status |-> "ok", invoked |-> FALSE]
    /\ UNCHANGED <<caller, threads, constraints, g_students_df, g_rooms_df, g_faculty_df, selection_vars,
                   result_vars, solver_vars, json_vars>>

DataTypes == {"students", "faculty", "courses", "rooms"}

RemoveRow(data_type, row_index) ==
    /\ g_students_df' =
          IF data_type = "students" THEN remove_row(g_students_df, row_index)
          ELSE g_students_df
    /\ g_faculty_df' =
          IF data_type = "faculty" THEN remove_row(g_faculty_df, row_index)
          ELSE g_faculty_df
    /\ g_courses_df' =
          IF data_type = "courses" THEN remove_row(g_courses_df, row_index)
          ELSE g_courses_df
    /\ g_rooms_df' =
          IF data_type = "rooms" THEN remove_row(g_rooms_df, row_index)
          ELSE g_rooms_df
    /\ response' =
          [op |-> "remove_row",
           status |-> IF data_vars' # data_vars THEN "ok" ELSE "refused",
           invoked |-> FALSE]
    /\ UNCHANGED <<caller, threads, constraints, selection_vars, result_vars, solver_vars, json_vars>>

RemoveCourseRow == \E row_index \in RowIndexes : RemoveRow("courses", row_index)

DistinctCatalogs == {<<>>, <<cAlgo, cBio>>, <<cBio, cChem>>}

InitRows ==
    /\ SolverIdle
    /\ JsonIdle
    /\ caller \in Callers
    /\ g_courses_df \in DistinctCatalogs
    /\ g_students_df = <<>>
    /\ g_rooms_df = <<>>
    /\ g_faculty_df = <<>>
    /\ g_selections_df = <<>>
    /\ timetable_result = <<>>
    /\ response = NoResponse
    /\ runs = 0
    /\ result_run = 0
    /\ adds = 0
    /\ added = <<>>
    /\ constraints = NoConstraints
    /\ threads = NoThreads

NextRows == AddCourseRow \/ RemoveCourseRow

SpecRows == InitRows /\ [][NextRows]_vars

-----------------------------------------------------------------------------
(* The callers: the selection list and generation requests, handled one at a  *)
(* time                                                                       *)

\* a key the request body lacks, or a picker left empty
Absent == "Absent"

SelectionRequest(action, student, code, section, fid) ==
    [action |-> action, student_id |-> student, course_code |-> code,
     section |-> section, faculty_id |-> fid]

\* the add requests: what the body carries (web) or the pickers show (desktop)
AddRequests ==
    { SelectionRequest("add", "s1", "A", "S1", Absent),
      SelectionRequest("add", "s1", "C", Absent, Absent),
      SelectionRequest("add", Absent, "A", "S1", Absent),
      SelectionRequest("add", "s1", Absent, "S1", Absent) }

\* web_app.py lines 306-307 (a missing key raises KeyError) and app.py
\* line 428 (a warning and an early return)
AddAccepted(data) == data.student_id # Absent /\ data.course_code # Absent

\* web_app.py lines 305-310: section defaults to 'A', faculty_id to None;
\* app.py lines 432-449: the section picker's text as it is
NewSelection(who, data) ==
    Selection(data.student_id, data.course_code,
              IF data.section # Absent THEN data.section
              ELSE IF who = "web" THEN "A" ELSE "",
              IF data.faculty_id # Absent THEN data.faculty_id ELSE None)

\* mutant: the new selection is put in front of the list
PrependSelection(selections, row) == <<row>> \o selections

\* pd.concat([selections_df, new_selection], ignore_index=True)
AppendSelection(selections, row) == Append(selections, row)

\* an add request: POST /api/selections with action 'add', or _add_selection
AddSelection ==
    /\ adds < MaxSel
    /\ \E data \in AddRequests :
         IF AddAccepted(data)
         THEN /\ g_selections_df' =
                    AppendSelection(g_selections_df, NewSelection(caller, data))
              /\ added' = Append(added, NewSelection(caller, data))
              /\ response' = [op |-> "add", status |-> "ok", invoked |-> FALSE]
         ELSE /\ response' =
                    [op |-> "add",
                     status |-> IF caller = "web" THEN "error" ELSE "warning",
                     invoked |-> FALSE]
              /\ UNCHANGED <<g_selections_df, added>>
    /\ adds' = adds + 1
    /\ UNCHANGED <<caller, threads, constraints, data_vars, result_vars, solver_vars, json_vars>>

\* a clear request: action 'clear' (web_app.py lines 312-313), or
\* _clear_selections (app.py lines 454-457)
ClearSelections ==
    /\ g_selections_df' = <<>>
    /\ adds' = 0
    /\ added' = <<>>
    /\ response' = [op |-> "clear", status |-> "ok", invoked |-> FALSE]
    /\ UNCHANGED <<caller, threads, constraints, data_vars, result_vars, solver_vars, json_vars>>

\* POST /api/selections with another action or with none: lines 303-315
OtherSelectionPost ==
    /\ caller = "web"
    /\ \E action \in {"update", Absent} :
         response' = [op |-> IF action = Absent THEN "post" ELSE action,
                      status |-> "ok", invoked |-> FALSE]
    /\ UNCHANGED <<caller, threads, constraints, data_vars, selection_vars, result_vars, solver_vars,
                   json_vars>>

\* the arguments of the call of web_app.py lines 346-349, app.py lines 470-473
GenerateArgs ==
    [students |-> g_students_df, courses |-> g_courses_df, rooms |-> g_rooms_df,
     faculty |-> g_faculty_df,
     days |-> constraints.days, slots_per_day |-> constraints.slots_per_day,
     selections |-> [given |-> TRUE, rows |-> g_selections_df]]

\* mutant: the student collection is not looked at
GenerateRefusedStudentsUnchecked(selections, students, courses, rooms, faculty) ==
    selections = <<>> \/ courses = <<>> \/ rooms = <<>> \/ faculty = <<>>

\* web_app.py lines 322-343, app.py lines 461-467
GenerateRefused(selections, students, courses, rooms, faculty) ==
    \/ selections = <<>>
    \/ students = <<>> \/ courses = <<>> \/ rooms = <<>> \/ faculty = <<>>

\* a generation request: POST /api/generate, or _generate_timetable
Generate ==
    /\ runs < MaxRuns
    /\ runs' = runs + 1
    /\ IF GenerateRefused(g_selections_df, g_students_df, g_courses_df,
                          g_rooms_df, g_faculty_df)
       THEN /\ response' =
                  [op |-> "generate", status |-> "refused", invoked |-> FALSE]
            /\ UNCHANGED <<timetable_result, result_run>>
       ELSE LET r == SolveTimetable(GenerateArgs)
            IN  IF r.status = "raised"
                THEN /\ response' =
                           [op |-> "generate", status |-> "error", invoked |-> TRUE]
                     /\ UNCHANGED <<timetable_result, result_run>>
                ELSE /\ timetable_result' = r.sessions
                     /\ result_run' = runs + 1
                     /\ response' =
                           [op |-> "generate", status |-> "ok", invoked |-> TRUE]
    /\ UNCHANGED <<caller, threads, constraints, data_vars, selection_vars, solver_vars, json_vars>>

RemoveAnyRow ==
    \E data_type \in DataTypes : \E row_index \in -1..0 :
        RemoveRow(data_type, row_index)

\* the collections after a load, and before any
LoadedData ==
    [constraints |-> AppConstraints,
     students |-> <<Student("s1", "Sam")>>,
     courses |-> <<cAlgo, cChem>>,
     rooms |-> <<Room("r2", "Lab 1", "Lab")>>,
     faculty |-> <<Faculty("f2", "Bob")>>]
NoData ==
    [constraints |-> NoConstraints, students |-> <<>>, courses |-> <<>>,
     rooms |-> <<>>, faculty |-> <<>>]

InitApp ==
    /\ SolverIdle
    /\ JsonIdle
    /\ caller \in Callers
    /\ \E d \in {LoadedData, NoData} :
          /\ constraints = d.constraints
          /\ g_students_df = d.students
          /\ g_courses_df = d.courses
          /\ g_rooms_df = d.rooms
          /\ g_faculty_df = d.faculty
    /\ g_selections_df = <<>>
    /\ timetable_result = <<>>
    /\ response = NoResponse
    /\ runs = 0
    /\ result_run = 0
    /\ adds = 0
    /\ added = <<>>
    /\ threads = NoThreads

NextApp ==
    AddSelection \/ ClearSelections \/ OtherSelectionPost \/ Generate
        \/ RemoveAnyRow

SpecApp == InitApp /\ [][NextApp]_vars

-----------------------------------------------------------------------------
(* The callers: loading collections.  Here a collection is held as its       *)
(* columns, as the JSON-column functions see it.                              *)

\* web_app.py lines 41-46
JsonColumnsOf(data_type) ==
    CASE data_type = "students" -> {"chosen_courses"}
      [] data_type = "faculty" -> {"skills", "availability"}
      [] data_type = "courses" -> JsonColumns
      [] data_type = "rooms" -> {"availability"}
      [] OTHER -> {}

\* the declared column the files of the model carry
ListColumn(data_type) ==
    CASE data_type = "students" -> "chosen_courses"
      [] data_type = "faculty" -> "availability"
      [] data_type = "rooms" -> "availability"
      [] OTHER -> "faculty_pool"

\* a one-row collection of a data type with the given cell in its list column
FileFrame(data_type, cell) ==
    [c \in {"name", ListColumn(data_type)} |->
        IF c = "name" THEN <<StrCell(<<"1">>)>> ELSE <<cell>>]

\* what a file holds: nothing that can be read, a list as text, or a broken list
Unreadable == [readable |-> FALSE, df |-> EmptyFrame]
GoodFile(data_type) ==
    [readable |-> TRUE, df |-> FileFrame(data_type, StrCell(<<"[", "1", "]">>))]
BadFile(data_type) ==
    [readable |-> TRUE, df |-> FileFrame(data_type, StrCell(<<"[", "1", ",">>))]
Files(data_type) == {Unreadable, GoodFile(data_type), BadFile(data_type)}

\* the collection of a data type as an earlier load left it
OldFrame(data_type) == FileFrame(data_type, ListCell(<<IntCell(<<"2">>)>>))

\* the content of data/constraints.json
FileConstraints == [days |-> <<"Mon", "Tue">>, slots_per_day |-> MaxSlotsPerDay]

Stored ==
    [students |-> g_students_df, faculty |-> g_faculty_df, courses |-> g_courses_df,
     rooms |-> g_rooms_df, constraints |-> constraints]

\* web_app.py lines 158-186, 120-138; app.py lines 286-299: read, parse, assign
load_one(store, data_type, file) ==
    IF ~file.readable THEN [status |-> "error", store |-> store]
    ELSE LET out ==
                 IF data_type \in DataTypes
                 THEN parse_json_columns(file.df, JsonColumnsOf(data_type))
                 ELSE [ok |-> TRUE, df |-> file.df]
         IN  IF ~out.ok THEN [status |-> "error", store |-> store]
             ELSE IF data_type \in DataTypes
                  THEN [status |-> "ok", store |-> [store EXCEPT ![data_type] = out.df]]
                  ELSE [status |-> "refused", store |-> store]

\* the order of the assignments of web_app.py lines 58-61 and 64-67
DefaultOrder == <<"students", "faculty", "courses", "rooms">>

RECURSIVE ReadAll(_, _, _)
\* lines 58-61: X_df = pd.read_csv(...), one after the other
ReadAll(store, files, k) ==
    IF k > Len(DefaultOrder) THEN [status |-> "ok", store |-> store]
    ELSE IF ~files[DefaultOrder[k]].readable
         THEN [status |-> "error", store |-> store]
         ELSE ReadAll([store EXCEPT ![DefaultOrder[k]] = files[DefaultOrder[k]].df],
                      files, k + 1)

RECURSIVE ParseAll(_, _)
\* lines 64-67: X_df = parse_json_columns(X_df, ...), one after the other
ParseAll(store, k) ==
    IF k > Len(DefaultOrder) THEN [status |-> "ok", store |-> store]
    ELSE LET out == parse_json_columns(store[DefaultOrder[k]],
                                       JsonColumnsOf(DefaultOrder[k]))
         IN  IF ~out.ok THEN [status |-> "error", store |-> store]
             ELSE ParseAll([store EXCEPT ![DefaultOrder[k]] = out.df], k + 1)

\* web_app.py lines 48-72, app.py lines 245-276: every assignment made before
\* the exception stays
load_default_data(store, files) ==
    IF ~files.constraints.readable THEN [status |-> "error", store |-> store]
    ELSE LET r == ReadAll([store EXCEPT !.constraints = FileConstraints], files, 1)
         IN  IF r.status # "ok" THEN r ELSE ParseAll(r.store, 1)

SetStored(store) ==
    /\ g_students_df' = store.students
    /\ g_faculty_df' = store.faculty
    /\ g_courses_df' = store.courses
    /\ g_rooms_df' = store.rooms
    /\ constraints' = store.constraints

\* POST /api/upload/<data_type>
UploadFile ==
    /\ caller = "web"
    /\ \E data_type \in DataTypes \cup {"staff"} : \E file \in Files(data_type) :
         LET r == load_one(Stored, data_type, file)
         IN  /\ SetStored(r.store)
             /\ response' = [op |-> "upload", status |-> r.status, invoked |-> FALSE]
    /\ UNCHANGED <<caller, threads, selection_vars, result_vars, solver_vars, json_vars>>

\* POST /api/data/<data_type>: the rows come with the request
UpdateData ==
    /\ caller = "web"
    /\ \E data_type \in DataTypes \cup {"staff"} :
       \E file \in Files(data_type) \ {Unreadable} :
         LET r == load_one(Stored, data_type, file)
         IN  /\ SetStored(r.store)
             /\ response' = [op |-> "update", status |-> r.status, invoked |-> FALSE]
    /\ UNCHANGED <<caller, threads, selection_vars, result_vars, solver_vars, json_vars>>

\* _load_data of one of the four tabs
LoadData ==
    /\ caller = "desktop"
    /\ \E data_type \in DataTypes : \E file \in Files(data_type) :
         LET r == load_one(Stored, data_type, file)
         IN  /\ SetStored(r.store)
             /\ response' = [op |-> "load", status |-> r.status, invoked |-> FALSE]
    /\ UNCHANGED <<caller, threads, selection_vars, result_vars, solver_vars, json_vars>>

DefaultFiles ==
    [constraints : {Unreadable, [readable |-> TRUE, df |-> EmptyFrame]},
     students : Files("students"), faculty : Files("faculty"),
     courses : Files("courses"), rooms : Files("rooms")]

\* load_default_data, _load_default_data
LoadDefaultData ==
    /\ \E files \in DefaultFiles :
         LET r == load_default_data(Stored, files)
         IN  /\ SetStored(r.store)
             /\ response' =
                   [op |-> "load_default", status |-> r.status, invoked |-> FALSE]
    /\ UNCHANGED <<caller, threads, selection_vars, result_vars, solver_vars, json_vars>>

InitLoad ==
    /\ SolverIdle
    /\ JsonIdle
    /\ caller \in Callers
    /\ constraints = AppConstraints
    /\ threads = NoThreads
    /\ g_students_df = OldFrame("students")
    /\ g_faculty_df = OldFrame("faculty")
    /\ g_courses_df = OldFrame("courses")
    /\ g_rooms_df = OldFrame("rooms")
    /\ g_selections_df = <<>>
    /\ timetable_result = <<>>
    /\ response = NoResponse
    /\ runs = 0
    /\ result_run = 0
    /\ adds = 0
    /\ added = <<>>

NextLoad == UploadFile \/ UpdateData \/ LoadData \/ LoadDefaultData

SpecLoad == InitLoad /\ [][NextLoad]_vars

-----------------------------------------------------------------------------
(* The threaded web server: app.run(..., threaded=True) hands every request   *)
(* to a thread of its own, and the handlers read and assign the module        *)
(* globals without a lock.  A handler is a sequence of steps, one for each    *)
(* read of a global that a later step of the same handler depends on.         *)

Threads == {"t1", "t2"}

ThreadRequest(action, data_type, data) ==
    [action |-> action, data_type |-> data_type, data |-> data]

\* a request without a selection in its body
NoBody == SelectionRequest(Absent, Absent, Absent, Absent, Absent)

\* the selection a thread's add request carries: one course for each thread
ThreadAdd(t) ==
    SelectionRequest("add", "s1", IF t = "t1" THEN "A" ELSE "C", "S1", Absent)

\* the collections the requests of this section remove from or replace
EditedTypes == {"rooms", "faculty"}

ThreadRequests(t) ==
    { ThreadRequest("add", Absent, ThreadAdd(t)),
      ThreadRequest("clear", Absent, NoBody),
      ThreadRequest("generate", Absent, NoBody) }
        \cup { ThreadRequest(a, dt, NoBody) :
                  a \in {"remove_row", "update", "upload"}, dt \in EditedTypes }

\* a thread that has not yet run a step of its handler
ThreadStart(request) ==
    [pc |-> "start", request |-> request, seen |-> <<>>, entered |-> FALSE,
     args |-> NoArgs, status |-> "none"]

\* the selection list before the requests: empty, or one earlier selection
EarlierSelections == {<<>>, <<Selection("s2", "A", "S9", None)>>}

Running(t, action, at) ==
    /\ threads[t].request.action = action
    /\ threads[t].pc = at

\* the handler of thread t returns
Done(t, status) == [threads[t] EXCEPT !.pc = "done", !.status = status]

\* web_app.py line 311, first half: pd.concat is called with the list the
\* global names at that moment
SelectionsRead(t) ==
    /\ Running(t, "add", "start")
    /\ threads' = [threads EXCEPT ![t].pc = "concat", ![t].seen = g_selections_df]
    /\ UNCHANGED <<caller, constraints, data_vars, selection_vars, result_vars,
                   response, solver_vars, json_vars>>

\* web_app.py line 311, second half: the global is bound to what pd.concat
\* returned
SelectionsWrite(t) ==
    /\ Running(t, "add", "concat")
    /\ g_selections_df' =
          AppendSelection(threads[t].seen, NewSelection("web", threads[t].request.data))
    /\ adds' = adds + 1
    /\ added' = Append(added, NewSelection("web", threads[t].request.data))
    /\ threads' = [threads EXCEPT ![t] = Done(t, "ok")]
    /\ response' = [op |-> "add", status |-> "ok", invoked |-> FALSE]
    /\ UNCHANGED <<caller, constraints, data_vars, result_vars, solver_vars, json_vars>>

\* web_app.py lines 312-313
SelectionsClear(t) ==
    /\ Running(t, "clear", "start")
    /\ g_selections_df' = <<>>
    /\ adds' = 0
    /\ added' = <<>>
    /\ threads' = [threads EXCEPT ![t] = Done(t, "ok")]
    /\ response' = [op |-> "clear", status |-> "ok", invoked |-> FALSE]
    /\ UNCHANGED <<caller, constraints, data_vars, result_vars, solver_vars, json_vars>>

\* web_app.py lines 322-343: the emptiness checks of generate_timetable
GenerateCheck(t) ==
    /\ Running(t, "generate", "start")
    /\ IF GenerateRefused(g_selections_df, g_students_df, g_courses_df,
                          g_rooms_df, g_faculty_df)
       THEN /\ threads' = [threads EXCEPT ![t] = Done(t, "refused")]
            /\ runs' = runs + 1
            /\ response' =
                  [op |-> "generate", status |-> "refused", invoked |-> FALSE]
       ELSE /\ threads' = [threads EXCEPT ![t].pc = "checked"]
            /\ UNCHANGED <<runs, response>>
    /\ UNCHANGED <<caller, constraints, data_vars, selection_vars, timetable_result,
                   result_run, solver_vars, json_vars>>

\* web_app.py lines 346-357: the call, on what the globals name at that
\* moment, and the assignment of its result
GenerateCall(t) ==
    /\ Running(t, "generate", "checked")
    /\ runs' = runs + 1
    /\ LET r == SolveTimetable(GenerateArgs)
       IN  IF r.status = "raised"
           THEN /\ threads' =
                      [threads EXCEPT ![t] =
                          [Done(t, "error") EXCEPT !.entered = TRUE, !.args = GenerateArgs]]
                /\ response' =
                      [op |-> "generate", status |-> "error", invoked |-> TRUE]
                /\ UNCHANGED <<timetable_result, result_run>>
           ELSE /\ threads' =
                      [threads EXCEPT ![t] =
                          [Done(t, "ok") EXCEPT !.entered = TRUE, !.args = GenerateArgs]]
                /\ timetable_result' = r.sessions
                /\ result_run' = runs + 1
                /\ response' =
                      [op |-> "generate", status |-> "ok", invoked |-> TRUE]
    /\ UNCHANGED <<caller, constraints, data_vars, selection_vars, solver_vars, json_vars>>

\* the assignment of one of the collections this section edits
AssignCollection(data_type, rows) ==
    /\ g_rooms_df' = IF data_type = "rooms" THEN rows ELSE g_rooms_df
    /\ g_faculty_df' = IF data_type = "faculty" THEN rows ELSE g_faculty_df
    /\ UNCHANGED <<g_students_df, g_courses_df>>

CollectionOf(data_type) ==
    IF data_type = "rooms" THEN g_rooms_df ELSE g_faculty_df

\* web_app.py lines 254-290 with index 0
ThreadRemoveRow(t) ==
    /\ Running(t, "remove_row", "start")
    /\ LET dt == threads[t].request.data_type
           ok == ValidIndex(CollectionOf(dt), 0)
       IN  /\ AssignCollection(dt, remove_row(CollectionOf(dt), 0))
           /\ threads' = [threads EXCEPT ![t] = Done(t, IF ok THEN "ok" ELSE "refused")]
           /\ response' =
                 [op |-> "remove_row", status |-> IF ok THEN "ok" ELSE "refused",
                  invoked |-> FALSE]
    /\ UNCHANGED <<caller, constraints, selection_vars, result_vars, solver_vars, json_vars>>

\* a request body, or a file, that holds no row
NoRows == <<>>

\* web_app.py lines 116-140 with the body []
ThreadUpdateData(t) ==
    /\ Running(t, "update", "start")
    /\ AssignCollection(threads[t].request.data_type, NoRows)
    /\ threads' = [threads EXCEPT ![t] = Done(t, "ok")]
    /\ response' = [op |-> "update", status |-> "ok", invoked |-> FALSE]
    /\ UNCHANGED <<caller, constraints, selection_vars, result_vars, solver_vars, json_vars>>

\* web_app.py lines 142-192 with a file that holds the header line only
ThreadUpload(t) ==
    /\ Running(t, "upload", "start")
    /\ AssignCollection(threads[t].request.data_type, NoRows)
    /\ threads' = [threads EXCEPT ![t] = Done(t, "ok")]
    /\ response' = [op |-> "upload", status |-> "ok", invoked |-> FALSE]
    /\ UNCHANGED <<caller, constraints, selection_vars, result_vars, solver_vars, json_vars>>

\* the collections loaded before the requests: every course of the catalog
\* finds a room and a faculty member
ThreadData == [LoadedData EXCEPT !.courses = <<cAlgo, cBio>>]

InitThreads ==
    /\ SolverIdle
    /\ JsonIdle
    /\ caller = "web"
    /\ constraints = ThreadData.constraints
    /\ g_students_df = ThreadData.students
    /\ g_courses_df = ThreadData.courses
    /\ g_rooms_df = ThreadData.rooms
    /\ g_faculty_df = ThreadData.faculty
    /\ g_selections_df \in EarlierSelections
    /\ timetable_result = <<>>
    /\ response = NoResponse
    /\ runs = 0
    /\ result_run = 0
    /\ adds = 0
    /\ added = <<>>
    /\ \E r1 \in ThreadRequests("t1") : \E r2 \in ThreadRequests("t2") :
          threads = [t \in Threads |-> ThreadStart(IF t = "t1" THEN r1 ELSE r2)]

NextThreads ==
    \E t \in Threads :
        \/ SelectionsRead(t)
        \/ SelectionsWrite(t)
        \/ SelectionsClear(t)
        \/ GenerateCheck(t)
        \/ GenerateCall(t)
        \/ ThreadRemoveRow(t)
        \/ ThreadUpdateData(t)
        \/ ThreadUpload(t)

SpecThreads == InitThreads /\ [][NextThreads]_vars

-----------------------------------------------------------------------------
(* Properties *)

Finished == pc \in {"returned", "raised"}

Rows == selections_df.rows

KnownCode(k) == Rows[k].course_code \in Codes(courses_df)

\* the rows of a collection that carry identifier f, and the first of them
HasFaculty(f) == \E i \in DOMAIN faculty_df : faculty_df[i].id = f

IsFirstWithId(i, f) ==
    /\ faculty_df[i].id = f
    /\ \A j \in 1..(i - 1) : faculty_df[j].id # f

IsFirstOfType(i, t) ==
    /\ rooms_df[i].type = t
    /\ \A j \in 1..(i - 1) : rooms_df[j].type # t

PoolResolvable(course) ==
    course.faculty_pool = <<>> \/ HasFaculty(course.faculty_pool[1])

C1_Pre ==
    /\ UseSelections(selections_df)
    /\ \A k \in DOMAIN Rows : KnownCode(k)
    /\ rooms_df # <<>>
    /\ faculty_df # <<>>
    /\ \A i \in DOMAIN courses_df :
         (\E k \in DOMAIN Rows : Rows[k].course_code = courses_df[i].code)
            => PoolResolvable(courses_df[i])

\* C1: with a non-empty selection list whose codes are all in the catalog and
\* resources that resolve, the call returns one session per selection, in
\* selection order; the k-th session carries the k-th selection's section and the
\* name and program of a catalog course with the selection's code.
C1_OneSessionPerSelection ==
    (Finished /\ C1_Pre) =>
        /\ result.status = "returned"
        /\ Len(result.sessions) = Len(Rows)
        /\ \A k \in DOMAIN Rows :
             /\ result.sessions[k].section = Rows[k].section
             /\ \E i \in DOMAIN courses_df :
                  /\ courses_df[i].code = Rows[k].course_code
                  /\ courses_df[i].name = result.sessions[k].course
                  /\ courses_df[i].program = result.sessions[k].program

C1_Witness ==
    /\ pc = "returned"
    /\ C1_Pre
    /\ Len(Rows) = 2
    /\ Rows[1].course_code # Rows[2].course_code
    /\ result.sessions[1].section # result.sessions[2].section
    /\ result.sessions[1].section # courses_df[1].section

WithoutSelection(k) ==
    [Args EXCEPT !.selections = [given |-> TRUE, rows |-> RemoveAt(Rows, k)]]

UnknownCount == Cardinality({k \in DOMAIN Rows : ~KnownCode(k)})

\* C2 as stated: the output of a run equals the output of the same run with an
\* unknown-code selection removed, for every such selection.
C2_UnknownRemovedAlways ==
    (Finished /\ UseSelections(selections_df)) =>
        \A k \in DOMAIN Rows :
            ~KnownCode(k) => result = SolveTimetable(WithoutSelection(k))

\* C2 amended: the same, for a selection that is not the only one of the list;
\* and a returned output is shorter than the list by the number of unknown codes.
C2_UnknownRemoved ==
    (Finished /\ UseSelections(selections_df)) =>
        /\ \A k \in DOMAIN Rows :
             (~KnownCode(k) /\ Len(Rows) > 1)
                => result = SolveTimetable(WithoutSelection(k))
        /\ result.status = "returned"
             => Len(result.sessions) = Len(Rows) - UnknownCount

C2_Witness ==
    /\ pc = "returned"
    /\ Len(Rows) = 2
    /\ ~KnownCode(1)
    /\ KnownCode(2)
    /\ Len(result.sessions) = 1
    /\ result.sessions[1].start = 0

C3_Offending ==
    \/ rooms_df = <<>>
    \/ faculty_df = <<>>
    \/ \E k \in DOMAIN scheduled_courses :
         ~PoolResolvable(scheduled_courses[k].course)

\* C3: with a non-empty request list and no room, no faculty, or a requested
\* course whose pool's first identifier matches no faculty row, the call ends in
\* an error and the caller receives no session list.
C3_FatalResourceError ==
    (Finished /\ scheduled_courses # <<>> /\ C3_Offending) =>
        /\ pc = "raised"
        /\ result.status = "raised"
        /\ result.sessions = <<>>

C3_Witness ==
    /\ pc = "raised"
    /\ idx >= 1
    /\ solution_data # <<>>
    /\ rooms_df # <<>>
    /\ faculty_df # <<>>

\* the clock time 08:00 + s * 30 minutes
ClockTime(s) == ZeroPad2(8 + (s \div 2)) \o ":" \o ZeroPad2(30 * (s % 2))

\* C5: every emitted start_time and end_time, and every row label of the
\* calendar, is the clock time of its slot.
C5_TimeStrings ==
    pc = "returned" =>
        /\ \A k \in DOMAIN result.sessions :
             /\ result.sessions[k].start_time = ClockTime(result.sessions[k].start)
             /\ result.sessions[k].end_time = ClockTime(result.sessions[k].end)
        /\ \A slot \in 0..(slots_per_day - 1) :
             CalendarLabels(slots_per_day)[slot] = ClockTime(slot)

C7_Scenario ==
    /\ Len(days) = 2
    /\ slots_per_day = 4
    /\ Len(rooms_df) = 1
    /\ Len(faculty_df) = 1
    /\ UseSelections(selections_df)
    /\ Len(scheduled_courses) = 2
    /\ Len(Rows) = 2
    /\ Rows[1].course_code # Rows[2].course_code
    /\ \A k \in 1..2 : scheduled_courses[k].course.duration_slots = 2

\* C7: 2 days, 4 slots per day, one room, one faculty member, two selections of
\* duration 2: the first session is on day 0 from 0 to 1, the second on day 0
\* from 3 to the wrapped end 0.
C7_DayWrapScenario ==
    (Finished /\ C7_Scenario) =>
        /\ result.status = "returned"
        /\ Len(result.sessions) = 2
        /\ result.sessions[1].day = days[1]
        /\ result.sessions[1].start = 0
        /\ result.sessions[1].end = 1
        /\ result.sessions[2].day = days[1]
        /\ result.sessions[2].start = 3
        /\ result.sessions[2].end = 0

C7_Witness == pc = "returned" /\ C7_Scenario

\* C8: the room of every session is the first room of the required type in
\* collection order, or the first room of the collection when no room has that
\* type; a missing type alone raises no error.
C8_RoomResolution ==
    /\ \A k \in DOMAIN solution_data :
         LET t == scheduled_courses[k].course.room_type
         IN  IF \E i \in DOMAIN rooms_df : rooms_df[i].type = t
             THEN \E i \in DOMAIN rooms_df :
                    IsFirstOfType(i, t) /\ solution_data[k].room = rooms_df[i].name
             ELSE solution_data[k].room = rooms_df[1].name
    /\ (pc = "raised" /\ rooms_df # <<>>) =>
         ~PoolResolvable(scheduled_courses[idx + 1].course) \/ faculty_df = <<>>

C8_Witness ==
    /\ pc = "returned"
    /\ \E k \in DOMAIN solution_data :
         \A i \in DOMAIN rooms_df :
            rooms_df[i].type # scheduled_courses[k].course.room_type
    /\ \E k \in DOMAIN solution_data :
         /\ solution_data[k].room # rooms_df[1].name
         /\ Cardinality(RoomsOfType(rooms_df, scheduled_courses[k].course.room_type)) = 2

\* C9 as stated: for a non-empty pool the faculty of the session is the record
\* the faculty-by-id map holds for the pool's first identifier; for an empty pool
\* it is the first faculty row.
C9_FacultyFromMap ==
    \A k \in DOMAIN solution_data :
        LET pool == scheduled_courses[k].course.faculty_pool
        IN  IF pool # <<>>
            THEN solution_data[k].faculty = FacultyMap(faculty_df)[pool[1]].name
            ELSE solution_data[k].faculty = faculty_df[1].name

\* C9 amended: for a non-empty pool the faculty of the session is the first row,
\* in collection order, whose identifier is the pool's first identifier (the
\* map's record when only one row carries it); for an empty pool it is the first
\* faculty row.
C9_FacultyFirstMatch ==
    \A k \in DOMAIN solution_data :
        LET pool == scheduled_courses[k].course.faculty_pool
        IN  IF pool # <<>>
            THEN /\ \E i \in DOMAIN faculty_df :
                      /\ IsFirstWithId(i, pool[1])
                      /\ solution_data[k].faculty = faculty_df[i].name
                 /\ Cardinality(FacultyWithId(faculty_df, pool[1])) = 1
                      => solution_data[k].faculty
                            = FacultyMap(faculty_df)[pool[1]].name
            ELSE solution_data[k].faculty = faculty_df[1].name

C9_Witness ==
    /\ pc = "returned"
    /\ \E k \in DOMAIN solution_data :
         LET pool == scheduled_courses[k].course.faculty_pool
         IN  /\ pool # <<>>
             /\ Cardinality(FacultyWithId(faculty_df, pool[1])) = 2
             /\ solution_data[k].faculty # FacultyMap(faculty_df)[pool[1]].name
    /\ \E k \in DOMAIN solution_data :
         scheduled_courses[k].course.faculty_pool = <<>>

\* C10: without selections (absent or empty) the request list is the catalog,
\* row by row, and the k-th session carries the k-th row's section, name and
\* program, also when rows share a code.
C10_CatalogFallback ==
    (pc # "idle" /\ ~UseSelections(selections_df)) =>
        /\ Len(scheduled_courses) = Len(courses_df)
        /\ \A i \in DOMAIN courses_df : scheduled_courses[i].course = courses_df[i]
        /\ \A k \in DOMAIN solution_data :
             /\ solution_data[k].section = courses_df[k].section
             /\ solution_data[k].course = courses_df[k].name
             /\ solution_data[k].program = courses_df[k].program
        /\ pc = "returned" => Len(result.sessions) = Len(courses_df)

C10_Witness ==
    /\ pc = "returned"
    /\ ~selections_df.given
    /\ Len(result.sessions) = 2
    /\ courses_df[1].code = courses_df[2].code
    /\ result.sessions[1].section # result.sessions[2].section

\* C4: a call that finishes with the arguments of the first finished call has
\* its result, whatever calls ran in between; and every call enters its loop
\* with the counter at 0 and an empty output list.
C4_Deterministic ==
    /\ (Finished /\ first_call.made /\ first_call.args = Args)
          => result = first_call.result
    /\ (pc = "loop" /\ idx = 0) => (current_slot = 0 /\ solution_data = <<>>)

C4_Witness ==
    /\ pc = "returned"
    /\ calls > 2
    /\ first_call.made
    /\ first_call.args = Args
    /\ Len(result.sessions) = 2
    /\ current_slot > 0

Structured(x) == x.kind \in {"list", "dict"}

\* the text of an encoded list: by the column convention it stands for the list
EncodedText(x) == x.kind = "str" /\ x.v # <<>> /\ x.v[1] = "["

Scalar(x) == ~Structured(x) /\ ~EncodedText(x)

\* C6: a list or mapping cell of a declared JSON column that was serialized is
\* restored by parsing the serialized collection; a scalar cell is returned as it
\* is by parsing and by serializing.
C6_RoundTrip ==
    \A c \in DOMAIN frame \cap JsonColumns : \A i \in DOMAIN frame[c] :
        /\ (json_op = "parse" /\ json_orig.op = "serialize"
                /\ Structured(json_orig.df[c][i]))
              => (json_out.ok /\ json_out.df[c][i] = json_orig.df[c][i])
        /\ (json_op \in {"parse", "serialize"} /\ Scalar(frame[c][i]))
              => (json_out.ok /\ json_out.df[c][i] = frame[c][i])

\* C11: in every state the callers reach from a catalog of pairwise distinct
\* codes by adding and removing course rows, no two course rows share a code.
C11_UniqueCodes ==
    \A i \in DOMAIN g_courses_df : \A j \in DOMAIN g_courses_df :
        g_courses_df[i].code = g_courses_df[j].code => i = j

\* C12: after any generation request returns, whatever its outcome, the stored
\* result holds no session computed by an earlier request.
C12_ResultReplaced ==
    response.op = "generate" => (timetable_result = <<>> \/ result_run = runs)

EmptyInput ==
    \/ g_selections_df = <<>>
    \/ g_students_df = <<>>
    \/ g_courses_df = <<>>
    \/ g_rooms_df = <<>>
    \/ g_faculty_df = <<>>

\* C14: a generation request that arrives while the selection list or one of
\* the four base collections is empty is answered with a warning or an error,
\* does not invoke solve_timetable and leaves the stored result as it was.
C14_NoEngineOnEmptyInput ==
    [][(runs' = runs + 1 /\ EmptyInput) =>
          /\ response'.op = "generate"
          /\ response'.status = "refused"
          /\ ~response'.invoked
          /\ timetable_result' = timetable_result
          /\ result_run' = result_run]_vars

C14_Witness ==
    /\ response.op = "generate"
    /\ response.status = "refused"
    /\ timetable_result # <<>>
    /\ g_selections_df # <<>>
    /\ g_students_df = <<>>
    /\ g_courses_df # <<>> /\ g_rooms_df # <<>> /\ g_faculty_df # <<>>

\* C15: parsing a collection that is itself the result of a parse succeeds and
\* returns that collection: parse(parse(df, cols), cols) = parse(df, cols).
C15_ParseIdempotent ==
    (json_op = "parse" /\ json_orig.op = "parse") =>
        (json_out.ok /\ json_out.df = json_in.df)

C15_Witness ==
    /\ json_op = "parse"
    /\ json_orig.op = "parse"
    /\ json_orig.df.faculty_pool # json_in.df.faculty_pool
    /\ json_in.df.faculty_pool[1].kind = "list"
    /\ Len(json_in.df.faculty_pool[1].v) = 1
    /\ EncodedText(json_in.df.name[1])

\* the cells parse_json_columns is to decode: text beginning with '[' in a
\* declared column
ToDecode(df, c, i) == c \in JsonColumns /\ EncodedText(df[c][i])

\* C16: the call fails, returning no collection, exactly when a cell it is to
\* decode is not valid JSON; otherwise each such cell is replaced by the list
\* its text stands for, and every other cell and every cell of an undeclared
\* column is returned as it is.
C16_DecodeRule ==
    json_op = "parse" =>
        LET df == json_in.df
        IN  /\ json_out.ok <=>
                  \A c \in DOMAIN df : \A i \in DOMAIN df[c] :
                      ToDecode(df, c, i) => Loads(df[c][i].v).ok
            /\ ~json_out.ok => json_out.df = EmptyFrame
            /\ json_out.ok =>
                  \A c \in DOMAIN df : \A i \in DOMAIN df[c] :
                      IF ToDecode(df, c, i)
                      THEN /\ json_out.df[c][i] = Loads(df[c][i].v).val
                           /\ json_out.df[c][i].kind = "list"
                      ELSE json_out.df[c][i] = df[c][i]

C16_Witness ==
    /\ json_op = "parse"
    /\ ~json_out.ok
    /\ json_in.df.faculty_pool[1] = StrCell(<<"[", "1", ",">>)
    /\ EncodedText(json_in.df.name[1])

\* C17: after parse_json_columns or serialize_json_columns, returning or
\* failing, and after the caller replaced a column of the returned collection,
\* every cell of the collection that was handed in is what it was before the
\* call.
C17_InputUntouched ==
    json_op \in {"parse", "serialize", "replace"} => frame = json_in.df

C17_Witness ==
    /\ json_op = "replace"
    /\ json_in.op = "parse"
    /\ EncodedText(frame.faculty_pool[1])
    /\ json_out.df.faculty_pool[1].kind = "int"
    /\ json_out.df.name = frame.name

\* C18: while a call runs, to its return or to the exception that ends it,
\* the six arguments (students, courses, rooms, faculty, constraints,
\* selections) stay what the caller passed.
C18_InputsReadOnly == [][pc = "loop" => Args' = Args]_vars

C18_Witness ==
    /\ pc = "raised"
    /\ idx = 1
    /\ selections_df.given
    /\ selections_df.rows = <<>>
    /\ students_df # <<>>
    /\ Len(courses_df) = 2
    /\ Len(rooms_df) = 3
    /\ Len(faculty_df) = 3

\* C19: a call finishes as the call on any arguments that differ from its own
\* only in the students, the allowed days and start slots of the courses, the
\* capacity and availability of the rooms, the availability and maximum load
\* of the faculty and the tails of the faculty pools: the same sessions, or an
\* exception for both.
C19_InertFields == Finished => \A b \in Variants(Args) : SolveTimetable(b) = result

C19_Witness ==
    /\ pc = "returned"
    /\ Len(result.sessions) = 3
    /\ Len(faculty_df) = 3
    /\ Len(rooms_df) = 3
    /\ \E b \in Variants(Args) :
          /\ b.students # students_df
          /\ b.courses[1].allowed_days # courses_df[1].allowed_days
          /\ b.courses[1].allowed_start_slots # courses_df[1].allowed_start_slots
          /\ b.courses[3].faculty_pool # courses_df[3].faculty_pool
          /\ b.rooms[1].capacity # rooms_df[1].capacity
          /\ b.rooms[1].availability # rooms_df[1].availability
          /\ b.faculty[1].availability # faculty_df[1].availability
          /\ b.faculty[1].max_load # faculty_df[1].max_load
          /\ SolveTimetable(b) = result

\* the position on the grid of the k-th session: its day's index and its start
DayIndexOf(name) == CHOOSE d \in 0..(Len(days) - 1) : days[d + 1] = name
PlacedAt(k) == DayIndexOf(solution_data[k].day) * slots_per_day + solution_data[k].start

\* the counter after the advance of the k-th request
CounterAfter(k) == PlacedAt(k) + scheduled_courses[k].course.duration_slots + 1

\* C20: the counter is 0 before the first request; after the advance of request
\* k it is that request's placement counter plus its duration plus one; request
\* k+1 computes its day and start from exactly that value, so that
\* start(k+1) = (start(k) + duration(k) + 1) mod slots_per_day.
C20_CounterContinuity ==
    pc # "idle" =>
        /\ Len(solution_data) = idx
        /\ idx = 0 => current_slot = 0
        /\ idx > 0 => current_slot = CounterAfter(idx)
        /\ \A k \in 1..(idx - 1) :
             /\ solution_data[k + 1].start = CounterAfter(k) % slots_per_day
             /\ solution_data[k + 1].start =
                    (solution_data[k].start
                        + scheduled_courses[k].course.duration_slots + 1) % slots_per_day
             /\ solution_data[k + 1].day =
                    days[DayIdx(CounterAfter(k), days, slots_per_day) + 1]

C20_Witness ==
    /\ pc = "returned"
    /\ idx = 3
    /\ Len(days) = 2
    /\ solution_data[2].day = days[2]
    /\ Wraps(CounterAfter(2), days, slots_per_day)
    /\ solution_data[3].start > 0
    /\ current_slot < CounterAfter(2)

\* C21: a placement that starts with current_slot div slots_per_day at or
\* beyond the number of days emits its session on days[0] with start =
\* current_slot mod slots_per_day and computes the end slot and the advance
\* from the counter reset to that start; any other placement emits on
\* days[current_slot div slots_per_day] and advances from the counter as it is.
C21_DayWrapRule ==
    [][(pc = "loop" /\ idx' = idx + 1) =>
          LET s == solution_data'[idx + 1]
              duration == scheduled_courses[idx + 1].course.duration_slots
              slot_in_day == current_slot % slots_per_day
          IN  IF current_slot \div slots_per_day >= Len(days)
              THEN /\ s.day = days[1]
                   /\ s.start = slot_in_day
                   /\ s.end = (slot_in_day + duration - 1) % slots_per_day
                   /\ current_slot' = slot_in_day + duration + 1
              ELSE /\ s.day = days[(current_slot \div slots_per_day) + 1]
                   /\ s.start = slot_in_day
                   /\ s.end = (current_slot + duration - 1) % slots_per_day
                   /\ current_slot' = current_slot + duration + 1]_vars

C21_Witness ==
    /\ pc = "returned"
    /\ idx = 2
    /\ Len(days) = 2
    /\ CounterAfter(1) \div slots_per_day = 3
    /\ solution_data[2].day = days[1]
    /\ current_slot < CounterAfter(1)

\* C22: every emitted session has end = (placement counter + duration - 1)
\* mod slots_per_day = (start + duration - 1) mod slots_per_day under the day
\* label of its start; a session reaching past the last slot of the day is
\* emitted as one session, without an error, and if its duration is at most
\* slots_per_day its end is smaller than its start.
C22_EndSlotRule ==
    /\ Len(solution_data) = idx
    /\ pc = "raised" =>
          PlaceRaises(rooms_df, faculty_df, scheduled_courses[idx + 1])
    /\ \A k \in DOMAIN solution_data :
          LET s == solution_data[k]
              duration == scheduled_courses[k].course.duration_slots
          IN  /\ s.end = (PlacedAt(k) + duration - 1) % slots_per_day
              /\ s.end = (s.start + duration - 1) % slots_per_day
              /\ \E d \in DOMAIN days : s.day = days[d]
              /\ (s.start + duration - 1 >= slots_per_day
                        /\ duration <= slots_per_day) => s.end < s.start

C22_Witness ==
    /\ pc = "returned"
    /\ idx = 2
    /\ slots_per_day = 4
    /\ solution_data[2].start = 3
    /\ scheduled_courses[2].course.duration_slots = 2
    /\ solution_data[2].end = 0
    /\ solution_data[2].day = days[1]

\* C23: the engine neither prevents a double booking nor revises a session: a
\* placement whose room and faculty resolve appends one session whatever was
\* emitted before, and the sessions emitted before stay as they are to the end
\* of the call.  (That a double booking is reached is the witness.)
C23_NoCheckNoRevision ==
    [][pc = "loop" =>
          /\ SubSeq(solution_data', 1, Len(solution_data)) = solution_data
          /\ (idx < Len(scheduled_courses)
                 /\ ~PlaceRaises(rooms_df, faculty_df, scheduled_courses[idx + 1]))
                => Len(solution_data') = Len(solution_data) + 1
          /\ pc' = "returned" => result'.sessions = solution_data]_vars

\* two sessions of different courses in one output list with the same day,
\* start slot, room and faculty, in a grid of more than one slot per day
C23_Witness ==
    /\ pc = "returned"
    /\ slots_per_day >= 2
    /\ \E j \in DOMAIN result.sessions : \E k \in DOMAIN result.sessions :
          /\ j < k
          /\ result.sessions[j].course # result.sessions[k].course
          /\ result.sessions[j].day = result.sessions[k].day
          /\ result.sessions[j].start = result.sessions[k].start
          /\ result.sessions[j].room = result.sessions[k].room
          /\ result.sessions[j].faculty = result.sessions[k].faculty

LoadOps == {"upload", "update", "load", "load_default"}

\* the collections a step replaces
Replaced ==
    {t \in DataTypes : Stored'[t] # Stored[t]}

\* C24: a load that fails leaves every stored collection and the constraint
\* set as they were before it began; a load of one collection that succeeds
\* replaces that collection and leaves the others and the constraints.
C24_AllOrNothing ==
    [][response'.op \in LoadOps =>
          /\ response'.status # "ok" => Stored' = Stored
          /\ (response'.status = "ok" /\ response'.op # "load_default") =>
                (Cardinality(Replaced) <= 1 /\ constraints' = constraints)]_vars

AllDone == \A t \in Threads : threads[t].pc = "done"

Asked(t, action) == threads[t].request.action = action

\* the selection the add request of thread t carries
Carried(t) == NewSelection("web", threads[t].request.data)

InList(sel) == \E k \in DOMAIN g_selections_df : g_selections_df[k] = sel

\* C25: in the threaded web server, when two add requests handled by different
\* threads have both completed, whatever the interleaving of their reads and
\* writes of the selection list, both selections are in the list; and when an
\* add request and a clear request have both completed, the list is empty or
\* holds the added selection alone.
C25_NoAddLost ==
    AllDone =>
        /\ (\A t \in Threads : Asked(t, "add")) =>
              \A t \in Threads : InList(Carried(t))
        /\ \A t, u \in Threads :
              (Asked(t, "add") /\ Asked(u, "clear")) =>
                  g_selections_df \in {<<>>, <<Carried(t)>>}

EmptyArgs(a) ==
    \/ a.selections.rows = <<>>
    \/ a.students = <<>>
    \/ a.courses = <<>>
    \/ a.rooms = <<>>
    \/ a.faculty = <<>>

\* C26: in the threaded web server, whatever request another thread handles
\* between the emptiness checks of a generation request and its call of
\* solve_timetable, the engine is never entered with an empty selection list
\* or an empty base collection.
C26_EngineNeverEnteredEmpty ==
    \A t \in Threads : threads[t].entered => ~EmptyArgs(threads[t].args)

RECURSIVE LargestDurationOf(_, _)
LargestDurationOf(reqs, k) ==
    IF k = 0 THEN 0
    ELSE LET d == reqs[k].course.duration_slots
             m == LargestDurationOf(reqs, k - 1)
         IN  IF d > m THEN d ELSE m

\* the largest duration among the requests of the call
LargestDuration == LargestDurationOf(scheduled_courses, Len(scheduled_courses))

\* C27: with at least one day, slots_per_day >= 1 and durations >= 1, every
\* emitted session has a day that is one of the configured labels and start
\* and end slots in 0 .. slots_per_day - 1; a placement that wraps starts from
\* a counter below slots_per_day; and the counter never exceeds
\* len(days) * slots_per_day plus the largest duration.
C27_GridRange ==
    (Len(days) >= 1 /\ slots_per_day >= 1
        /\ \A k \in DOMAIN scheduled_courses :
              scheduled_courses[k].course.duration_slots >= 1) =>
        /\ \A k \in DOMAIN solution_data :
              /\ \E d \in DOMAIN days : solution_data[k].day = days[d]
              /\ 0 <= solution_data[k].start
              /\ solution_data[k].start < slots_per_day
              /\ 0 <= solution_data[k].end
              /\ solution_data[k].end < slots_per_day
        /\ Wraps(current_slot, days, slots_per_day) =>
              PlacementSlot(current_slot, days, slots_per_day) < slots_per_day
        /\ current_slot <= Len(days) * slots_per_day + LargestDuration

\* the counter reaches the bound, and the placement after it wraps
C27_Witness ==
    /\ pc = "returned"
    /\ idx = 3
    /\ CounterAfter(2) = Len(days) * slots_per_day + LargestDuration
    /\ Wraps(CounterAfter(2), days, slots_per_day)
    /\ solution_data[3].day = days[1]
    /\ solution_data[3].start < slots_per_day
    /\ solution_data[3].end < solution_data[3].start

\* C28: two calls whose selection lists differ only in the student_id or
\* faculty_id of some selections give the same result; and every session of a
\* selection carries the faculty member whose identifier is first in the
\* course's pool, or the first faculty row when the pool is empty, whatever
\* faculty member the selection names.
C28_SelectionPeopleIgnored ==
    /\ (Finished /\ calls = 2) => result = first_call.result
    /\ \A k \in DOMAIN solution_data :
          LET course == scheduled_courses[k].course
          IN  solution_data[k].faculty =
                 IF course.faculty_pool # <<>>
                 THEN faculty_df[FirstIndex({i \in DOMAIN faculty_df :
                                      faculty_df[i].id = course.faculty_pool[1]})].name
                 ELSE faculty_df[1].name

\* the second call is over, its selection for Algorithms names Ann where the
\* first named nobody, and the session is Bob's, the first of the pool
C28_Witness ==
    /\ pc = "returned"
    /\ calls = 2
    /\ Len(Rows) = 2
    /\ Rows[1].course_code = "A"
    /\ Rows[1].faculty_id = "f1"
    /\ first_call.args.selections.rows[1].faculty_id = None
    /\ Rows[2].student_id # first_call.args.selections.rows[2].student_id
    /\ result.sessions[1].faculty = "Bob"

\* C29: with a non-empty selection list the catalog is never the fallback:
\* when every selection names a code absent from the catalog the request list
\* is empty, the call does not raise and what it returns is the empty list;
\* and every emitted session is of a course some selection names.
C29_FallbackBySelectionList ==
    (pc # "idle" /\ UseSelections(selections_df)) =>
        /\ (\A k \in DOMAIN Rows : ~KnownCode(k)) =>
              /\ scheduled_courses = <<>>
              /\ solution_data = <<>>
              /\ pc # "raised"
              /\ pc = "returned" => result.sessions = <<>>
        /\ \A k \in DOMAIN solution_data :
              \E j \in DOMAIN Rows :
                 /\ KnownCode(j)
                 /\ Rows[j].course_code = scheduled_courses[k].course_code
                 /\ solution_data[k].course =
                        CourseMap(courses_df)[Rows[j].course_code].name
                 /\ solution_data[k].section = Rows[j].section

\* two selections of codes the catalog lacks, a catalog with courses, no room:
\* the call returned the empty list
C29_Witness ==
    /\ pc = "returned"
    /\ Len(Rows) = 2
    /\ \A k \in DOMAIN Rows : ~KnownCode(k)
    /\ Len(courses_df) >= 2
    /\ rooms_df = <<>>
    /\ result.sessions = <<>>

\* no placement up to the k-th started from a counter beyond the grid
PreWrap(k) == \A j \in 1..(k - 1) : ~Wraps(CounterAfter(j), days, slots_per_day)

\* the absolute slots the k-th session occupies
Span(k) == PlacedAt(k)..(PlacedAt(k) + scheduled_courses[k].course.duration_slots - 1)

\* C30: up to the first day-wrap of a call, with a(k) = day index *
\* slots_per_day + start, the first session is at a(1) = 0, a(k+1) = a(k) +
\* duration(k) + 1, and the spans a(k) .. a(k) + duration(k) - 1 of any two
\* sessions are disjoint and increase with the request order, consecutive
\* spans with exactly one free slot between them.
C30_PreWrapDisjoint ==
    \A k \in DOMAIN solution_data :
        PreWrap(k) =>
            /\ k = 1 => PlacedAt(k) = 0
            /\ k > 1 =>
                  /\ PlacedAt(k) =
                        PlacedAt(k - 1)
                           + scheduled_courses[k - 1].course.duration_slots + 1
                  /\ Span(k - 1) \cup {PlacedAt(k) - 1} \cup Span(k) =
                        PlacedAt(k - 1)..(PlacedAt(k)
                           + scheduled_courses[k].course.duration_slots - 1)
                  /\ PlacedAt(k) - 1 \notin Span(k - 1) \cup Span(k)
            /\ \A j \in 1..(k - 1) :
                  /\ Span(j) \cap Span(k) = {}
                  /\ \A x \in Span(j) : \A y \in Span(k) : x < y

\* three sessions before any wrap, the second one reaching into the next day
C30_Witness ==
    /\ pc = "returned"
    /\ idx = 3
    /\ PreWrap(3)
    /\ Len(days) = 2
    /\ PlacedAt(2) = 2
    /\ solution_data[2].end < solution_data[2].start
    /\ PlacedAt(3) = 5
    /\ solution_data[3].day = days[2]

====
